---- MODULE Spec2Model ----
(***************************************************************************)
(* Model of the snow-removal parking-post pipelines:                       *)
(*   src/main.py              the sync pipeline  (fetch, project, geocode,  *)
(*                            merge with the previous posts.csv, write)     *)
(*   src/fill_missing_rues.py the repair pipeline (re-query missing labels  *)
(*                            of posts.csv in place)                        *)
(* posts.csv, the feature layer, the projection service and the reverse     *)
(* geocoder are the environment; every request the scripts make is logged   *)
(* in a history variable so that "no request is made" can be stated.        *)
(*                                                                         *)
(* Conventions: Python None is the empty tuple and a present value v is     *)
(* <<v>>; a float coordinate is an integer count of 1e-7 degrees; a         *)
(* duration is an integer count of centiseconds; DATE_MAJ is an integer     *)
(* count of 1e9 milliseconds.  CSV fields are strings.                      *)
(***************************************************************************)
EXTENDS Integers, Sequences, FiniteSets, TLC

VARIABLES
    file,           \* posts.csv: [exists, header, rows]
    layer,          \* the feature layer's content during the current sync run
    pc,             \* position of the running script
    script,         \* "none", "sync" (main.py) or "repair" (fill_missing_rues.py)
    existing_rows,  \* main.py: OBJECTID text -> previous row
    all_features,   \* main.py: features accumulated by the fetch loop
    offset,         \* main.py: next resultOffset
    projected,      \* main.py: concatenated projection responses
    reverse_cache,  \* main.py: key text -> label
    i,              \* main.py: start of the next projection batch
    idx,            \* main.py: row loop index (0-based)
    rows,           \* fill_missing_rues.py: the rows read from posts.csv
    header,         \* fill_missing_rues.py: the column names as read
    rowpos,         \* fill_missing_rues.py: index of the row being visited
    attempt,        \* fill_missing_rues.py: reverse_geocode's attempt counter
    trace,          \* fill_missing_rues.py: requests/sleeps of the call in progress
    file0,          \* history: posts.csv as it was when the run started
    fetchLog,       \* history: resultOffset of every page request
    pages,          \* history: every page received
    projLog,        \* history: every batch posted to the projection endpoint
    calls,          \* history: every reverse_geocode call, with its requests and sleeps
    body,           \* label selection: a reverse-geocode response body
    label           \* label selection: the label extracted from body

vars == <<file, layer, pc, script, existing_rows, all_features, offset, projected,
          reverse_cache, i, idx, rows, header, rowpos, attempt, trace, file0, fetchLog, pages,
          projLog, calls, body, label>>

-----------------------------------------------------------------------------
(* Python values *)

None == <<>>
Some(v) == <<v>>
IsNone(o) == o = <<>>
Val(o) == o[1]

\* d.get(k): None when the key is absent
Get(d, k) == IF k \in DOMAIN d THEN Some(d[k]) ELSE None

\* truthiness of an optional string: None and "" are falsy
Truthy(o) == ~IsNone(o) /\ Val(o) # ""

\* a or b or c or "" over optional strings
OrElse(a, b) == IF Truthy(a) THEN a ELSE b

EmptyDict == <<>>

-----------------------------------------------------------------------------
(* Program constants (sizes scaled down, durations in centiseconds) *)

PAGE_SIZE == 2          \* main.py PAGE_SIZE = 500, scaled down
batch_size == 2         \* main.py batch_size = 200, scaled down
MAX_RETRIES == 3
SLEEP_SECONDS == 8      \* 0.08 s
BACKOFF == 50           \* 0.5 s, the factor of time.sleep(0.5 * attempt)
MISSING_RUE == "MISSING_RUE"

HEADER == <<"STATION_NO", "STATUT", "DATE_MAJ_ISO", "STATIONNEMENT", "OBJECTID",
            "X_32187", "Y_32187", "LON_WGS84", "LAT_WGS84", "RUE_REVERSE">>

-----------------------------------------------------------------------------
(* Bounds of the model *)

MaxFeatures == 3        \* longest feature layer
MaxRows == 2            \* most rows of posts.csv before a repair run

-----------------------------------------------------------------------------
(* Number formatting *)

Abs(n) == IF n < 0 THEN -n ELSE n

RECURSIVE Pow10(_)
Pow10(k) == IF k = 0 THEN 1 ELSE 10 * Pow10(k - 1)

\* f written with exactly w digits (leading zeros)
RECURSIVE Pad(_, _)
Pad(f, w) == IF w = 1 THEN ToString(f)
             ELSE IF f < Pow10(w - 1) THEN "0" \o Pad(f, w - 1)
             ELSE ToString(f)

\* the fraction f / 10^w with trailing zeros dropped, at least one digit
RECURSIVE Frac(_, _)
Frac(f, w) == IF w = 1 THEN ToString(f)
              ELSE IF f % 10 = 0 THEN Frac(f \div 10, w - 1)
              ELSE Pad(f, w)

\* str(float) / what csv.writer writes for a float: shortest decimal
FloatText(n) ==
    (IF n < 0 THEN "-" ELSE "") \o ToString(Abs(n) \div Pow10(7)) \o "."
        \o Frac(Abs(n) % Pow10(7), 7)

\* round to 6 decimals (units of 1e-6), ties to even
Round6(n) ==
    LET q == Abs(n) \div 10
        r == Abs(n) % 10
        m == IF r < 5 THEN q ELSE IF r > 5 THEN q + 1 ELSE q + (q % 2)
    IN  IF n < 0 THEN -m ELSE m

\* f"{v:.6f}"
Fixed6(n) ==
    LET m == Round6(n)
    IN  (IF m < 0 THEN "-" ELSE "") \o ToString(Abs(m) \div Pow10(6)) \o "."
            \o Pad(Abs(m) % Pow10(6), 6)

\* the key is built from the unrounded coordinates
CacheKey_Mutant(lon, lat) == FloatText(lon) \o "," \o FloatText(lat)

\* key = f"{lon:.6f},{lat:.6f}"
CacheKey(lon, lat) == Fixed6(lon) \o "," \o Fixed6(lat)

-----------------------------------------------------------------------------
(* The world: feature layer, projection service, geocoder *)

G1 == [x |-> 300000, y |-> 5040000]
G2 == [x |-> 300001, y |-> 5040000]
Geometries == {G1, G2}

\* The projection service, EPSG:32187 -> EPSG:4326.  The two points are
\* distinct after projection and equal after rounding to 6 decimals.
ProjectionOf(g) == IF g = G1 THEN [x |-> -735000010, y |-> 455000000]
                   ELSE [x |-> -735000014, y |-> 455000000]

KnownFloats == UNION {{ProjectionOf(g).x, ProjectionOf(g).y} : g \in Geometries}

\* the texts float() accepts, with their values
FloatTexts == {<<FloatText(n), n>> : n \in KnownFloats}

\* float(s): the value, or None where Python raises ValueError
ParseFloat(s) == IF \E t \in FloatTexts : t[1] = s
                 THEN Some((CHOOSE t \in FloatTexts : t[1] = s)[2])
                 ELSE None

DATE_OK == 1700           \* 1.7e12 ms, 2023-11-14T22:13:20
DATE_TOO_LATE == 1000000000  \* 1e18 ms, beyond year 9999
MAX_DATE == 253402        \* 253402300799999 ms, the last instant of year 9999

ObjectIds == {1, 2}

Feature(o, d, g) ==
    [attributes |-> [STATION_NO |-> "S", STATUT |-> "A", DATE_MAJ |-> d,
                     STATIONNEMENT |-> "P", OBJECTID |-> o],
     geometry |-> g]

\* the posts of the layer, at either location, and one record whose DATE_MAJ
\* is beyond what utcfromtimestamp accepts
Features ==
    {Feature(o, Some(DATE_OK), g) : o \in ObjectIds, g \in Geometries}
        \cup {Feature(3, Some(DATE_TOO_LATE), G1)}

RECURSIVE SeqsUpTo(_, _)
SeqsUpTo(S, n) == IF n = 0 THEN {<<>>}
                  ELSE LET T == SeqsUpTo(S, n - 1)
                       IN  T \cup {Append(t, s) : t \in {u \in T : Len(u) = n - 1}, s \in S}

Layers == SeqsUpTo(Features, MaxFeatures)

-----------------------------------------------------------------------------
(* Reverse-geocode responses and label selection (both scripts) *)

Raised == [raised |-> "URLError"]
IsRaised(resp) == "raised" \in DOMAIN resp

LabelKeys == {"LongLabel", "Address", "Match_addr"}

\* Address is preferred to LongLabel
ExtractLabel_Mutant(data) ==
    LET a == Get(data, "address")
        adr == IF IsNone(a) THEN EmptyDict ELSE Val(a)
    IN  Val(OrElse(Get(adr, "Address"),
            OrElse(Get(adr, "LongLabel"),
            OrElse(Get(adr, "Match_addr"), Some("")))))

\* addr = data.get("address") or {};
\* label = addr.get("LongLabel") or addr.get("Address") or addr.get("Match_addr") or ""
ExtractLabel(data) ==
    LET a == Get(data, "address")
        adr == IF IsNone(a) THEN EmptyDict ELSE Val(a)
    IN  Val(OrElse(Get(adr, "LongLabel"),
            OrElse(Get(adr, "Address"),
            OrElse(Get(adr, "Match_addr"), Some("")))))

\* what the geocoder may answer for a point: a transport failure, a body
\* without an address, or an address
GeoResponses ==
    {Raised, EmptyDict,
     [address |-> [LongLabel |-> "1 Rue A", Address |-> "1 Rue A", Match_addr |-> "Rue A"]]}

-----------------------------------------------------------------------------
(* posts.csv *)

Row(st, stat, iso, park, oid, x, y, lon, lat, rue) ==
    [STATION_NO |-> st, STATUT |-> stat, DATE_MAJ_ISO |-> iso, STATIONNEMENT |-> park,
     OBJECTID |-> oid, X_32187 |-> x, Y_32187 |-> y, LON_WGS84 |-> lon,
     LAT_WGS84 |-> lat, RUE_REVERSE |-> rue]

NoFile == [exists |-> FALSE, header |-> <<>>, rows |-> <<>>]
CsvFile(h, rs) == [exists |-> TRUE, header |-> h, rows |-> rs]

\* the previous row is never found
ExistingRow_Mutant(erows, objectid) == None

\* line 148: existing_rows.get(objectid, {}); None stands for the empty dict
ExistingRow(erows, objectid) == Get(erows, objectid)

\* load_existing(): OBJECTID -> row, a later row replacing an earlier one
load_existing(f) ==
    IF ~f.exists THEN EmptyDict
    ELSE LET ids == {f.rows[k].OBJECTID : k \in DOMAIN f.rows}
             last(o) == CHOOSE k \in DOMAIN f.rows :
                            /\ f.rows[k].OBJECTID = o
                            /\ \A j \in DOMAIN f.rows : f.rows[j].OBJECTID = o => j <= k
         IN  [o \in ids |-> f.rows[last(o)]]

-----------------------------------------------------------------------------
(* main.py helpers *)

Min(a, b) == IF a < b THEN a ELSE b

\* the layer's answer to fetch_page(offset, limit), or an error body that
\* carries no "features" key
FeatureResponses(off, limit) ==
    {[features |-> SubSeq(layer, off + 1, Min(off + limit, Len(layer)))],
     [error |-> "e"]}

\* the loop also ends on a full page
IsLastPage_Mutant(features) == Len(features) <= PAGE_SIZE

\* line 114: a page shorter than the page size ends the loop
IsLastPage(features) == Len(features) < PAGE_SIZE

\* data.get("features", [])
FeaturesOf(data) == IF "features" \in DOMAIN data THEN data.features ELSE <<>>

\* points = [{"x": ..., "y": ...} for f in all_features]
PointsOf(fs) == [k \in DOMAIN fs |-> fs[k].geometry]

\* the projection service's answer to a batch, or an error body that carries
\* no "geometries" key
ProjectionResponses(batch) ==
    {[geometries |-> [k \in DOMAIN batch |-> ProjectionOf(batch[k])]],
     [error |-> "e"]}

\* project_points(points) given the response body; no request for []
project_points(points, data) ==
    IF points = <<>> THEN <<>>
    ELSE IF "geometries" \in DOMAIN data THEN data.geometries ELSE <<>>

IsoText(ms) == IF ms = 0 THEN "1970-01-01T00:00:00"
               ELSE IF ms = DATE_OK THEN "2023-11-14T22:13:20"
               ELSE "T" \o ToString(ms)

\* utcfromtimestamp raises ValueError beyond year 9999
MsToIsoRaises(ms) == ~IsNone(ms) /\ Val(ms) > MAX_DATE

ms_to_iso(ms) == IF IsNone(ms) THEN "" ELSE IsoText(Val(ms))

\* reverse_geocode(lon, lat, cache) of main.py, given the response a request
\* would receive: the label, the cache afterwards, the requests made
reverse_geocode(lon, lat, cache, resp) ==
    IF IsNone(lon) \/ IsNone(lat)
    THEN [label |-> "", cache |-> cache, trace |-> <<>>, raised |-> FALSE]
    ELSE LET key == CacheKey(Val(lon), Val(lat))
         IN  IF key \in DOMAIN cache
             THEN [label |-> cache[key], cache |-> cache, trace |-> <<>>,
                   raised |-> FALSE]
             ELSE LET l == IF IsRaised(resp) THEN "" ELSE ExtractLabel(resp)
                  IN  [label |-> l, cache |-> (key :> l) @@ cache, trace |-> <<0>>,
                       raised |-> IsRaised(resp)]

\* the text csv.writer writes for lon/lat: "" for None
CoordText(v) == IF IsNone(v) THEN "" ELSE FloatText(Val(v))

-----------------------------------------------------------------------------
(* Initial posts.csv of the combined specification *)

ValidLon == FloatText(ProjectionOf(G1).x)
ValidLat == FloatText(ProjectionOf(G1).y)

SeedRow(o, lon, lat, rue) ==
    Row("S", "A", IsoText(DATE_OK), "P", ToString(o), ToString(G1.x), ToString(G1.y),
        lon, lat, rue)

\* rows a previous run can have left: resolved, unresolved, or marked missing
SeedRows ==
    {SeedRow(o, c[1], c[2], rue) :
        o \in ObjectIds, c \in {<<ValidLon, ValidLat>>, <<"", "">>},
        rue \in {"", "Rue Test", MISSING_RUE}}

Seeds ==
    {NoFile} \cup {CsvFile(HEADER, <<row>>) : row \in SeedRows}
        \cup {CsvFile(HEADER, <<SeedRow(1, ValidLon, ValidLat, rue),
                                SeedRow(2, ValidLon, ValidLat, "")>>) :
                    rue \in {"", "Rue Test"}}

-----------------------------------------------------------------------------
(* main.py: main() *)

\* one reverse_geocode call: the row it was made for, its arguments, its
\* requests (0) and sleeps (centiseconds) in order, the label returned,
\* whether its last request raised, and the pause main makes after it
Call(s, k, lon, lat, tr, l, ex, p) ==
    [script |-> s, row |-> k, lon |-> lon, lat |-> lat, trace |-> tr, label |-> l,
     raised |-> ex, pause |-> p]

\* lines 103-105
SyncStart ==
    /\ pc = "start"
    /\ script' = "sync"
    /\ \E L \in Layers : layer' = L
    /\ existing_rows' = load_existing(file)
    /\ all_features' = <<>>
    /\ offset' = 0
    /\ pc' = "fetch"
    /\ UNCHANGED <<file, projected, reverse_cache, i, idx, rows, header, rowpos, attempt, trace,
                   file0, fetchLog, pages, projLog, calls, body, label>>

\* lines 107-115, one iteration of the fetch loop
FetchPage ==
    /\ pc = "fetch"
    /\ \E data \in FeatureResponses(offset, PAGE_SIZE) :
         LET features == FeaturesOf(data)
         IN  /\ fetchLog' = Append(fetchLog, offset)
             /\ pages' = Append(pages, features)
             /\ IF features = <<>>
                THEN /\ pc' = "project"
                     /\ UNCHANGED <<all_features, offset>>
                ELSE /\ all_features' = all_features \o features
                     /\ offset' = offset + Len(features)
                     /\ pc' = IF IsLastPage(features) THEN "project" ELSE "fetch"
    /\ UNCHANGED <<file, layer, script, existing_rows, projected, reverse_cache, i, idx,
                   rows, header, rowpos, attempt, trace, file0, projLog, calls, body, label>>

\* line 108 raising: urlopen or json.load fails, the run aborts
FetchFail ==
    /\ pc = "fetch"
    /\ fetchLog' = Append(fetchLog, offset)
    /\ pc' = "failed_fetch"
    /\ UNCHANGED <<file, layer, script, existing_rows, all_features, offset, projected,
                   reverse_cache, i, idx, rows, header, rowpos, attempt, trace, file0, pages,
                   projLog, calls, body, label>>

\* lines 124-125, one iteration of the batch loop
ProjectBatch ==
    /\ pc = "project"
    /\ i < Len(all_features)
    /\ LET points == PointsOf(all_features)
           batch == SubSeq(points, i + 1, Min(i + batch_size, Len(points)))
       IN  /\ \E data \in ProjectionResponses(batch) :
                  projected' = projected \o project_points(batch, data)
           /\ projLog' = IF batch = <<>> THEN projLog ELSE Append(projLog, batch)
    /\ i' = i + batch_size
    /\ UNCHANGED <<file, layer, pc, script, existing_rows, all_features, offset,
                   reverse_cache, idx, rows, header, rowpos, attempt, trace, file0, fetchLog,
                   pages, calls, body, label>>

\* line 125 raising inside project_points, the run aborts
ProjectFail ==
    /\ pc = "project"
    /\ i < Len(all_features)
    /\ LET points == PointsOf(all_features)
       IN  projLog' = Append(projLog, SubSeq(points, i + 1, Min(i + batch_size, Len(points))))
    /\ pc' = "failed_project"
    /\ UNCHANGED <<file, layer, script, existing_rows, all_features, offset, projected,
                   reverse_cache, i, idx, rows, header, rowpos, attempt, trace, file0, fetchLog,
                   pages, calls, body, label>>

\* lines 127-143: the batch loop is over, posts.csv is opened for writing
\* (truncated) and the header row is written
OpenOutput ==
    /\ pc = "project"
    /\ i >= Len(all_features)
    /\ reverse_cache' = EmptyDict
    /\ file' = CsvFile(HEADER, <<>>)
    /\ idx' = 0
    /\ pc' = "rows"
    /\ UNCHANGED <<layer, script, existing_rows, all_features, offset, projected, i,
                   rows, header, rowpos, attempt, trace, file0, fetchLog, pages, projLog, calls,
                   body, label>>

\* lines 144-171, one iteration of the row loop
EmitRow ==
    /\ pc = "rows"
    /\ idx < Len(all_features)
    /\ LET feat == all_features[idx + 1]
           attrs == feat.attributes
           geom == feat.geometry
           objectid == ToString(attrs.OBJECTID)
           existing == ExistingRow(existing_rows, objectid)
       IN  IF ~IsNone(existing)
           THEN \* lines 150-152
                /\ UNCHANGED <<reverse_cache, calls>>
                /\ IF MsToIsoRaises(attrs.DATE_MAJ)
                   THEN pc' = "failed_rows" /\ UNCHANGED <<file, idx>>
                   ELSE /\ file' = [file EXCEPT !.rows = Append(@,
                                        Row(attrs.STATION_NO, attrs.STATUT,
                                            ms_to_iso(attrs.DATE_MAJ), attrs.STATIONNEMENT,
                                            objectid, ToString(geom.x), ToString(geom.y),
                                            Val(existing).LON_WGS84, Val(existing).LAT_WGS84,
                                            Val(existing).RUE_REVERSE))]
                        /\ idx' = idx + 1
                        /\ pc' = pc
           ELSE \* lines 154-157
                LET wgs84 == IF idx < Len(projected) THEN projected[idx + 1] ELSE EmptyDict
                    lon == Get(wgs84, "x")
                    lat == Get(wgs84, "y")
                IN  \E resp \in GeoResponses :
                      LET g == reverse_geocode(lon, lat, reverse_cache, resp)
                      IN  /\ reverse_cache' = g.cache
                          /\ calls' = Append(calls, Call("sync", idx + 1, lon, lat,
                                                          g.trace, g.label, g.raised, 0))
                          /\ IF MsToIsoRaises(attrs.DATE_MAJ)
                             THEN pc' = "failed_rows" /\ UNCHANGED <<file, idx>>
                             ELSE /\ file' = [file EXCEPT !.rows = Append(@,
                                        Row(attrs.STATION_NO, attrs.STATUT,
                                            ms_to_iso(attrs.DATE_MAJ), attrs.STATIONNEMENT,
                                            objectid, ToString(geom.x), ToString(geom.y),
                                            CoordText(lon), CoordText(lat), g.label))]
                                  /\ idx' = idx + 1
                                  /\ pc' = pc
    /\ UNCHANGED <<layer, script, existing_rows, all_features, offset, projected, i,
                   rows, header, rowpos, attempt, trace, file0, fetchLog, pages, projLog,
                   body, label>>

\* line 173: the row loop is over, the file is closed
SyncFinish ==
    /\ pc = "rows"
    /\ idx >= Len(all_features)
    /\ pc' = "done"
    /\ UNCHANGED <<file, layer, script, existing_rows, all_features, offset, projected,
                   reverse_cache, i, idx, rows, header, rowpos, attempt, trace, file0, fetchLog,
                   pages, projLog, calls, body, label>>

SyncNext ==
    \/ SyncStart
    \/ FetchPage
    \/ FetchFail
    \/ ProjectBatch
    \/ ProjectFail
    \/ OpenOutput
    \/ EmitRow
    \/ SyncFinish

-----------------------------------------------------------------------------
(* fill_missing_rues.py *)

\* str.strip() and str.upper() on the labels of the model
Strip(s) == CASE s = " Missing_Rue " -> "Missing_Rue"
              [] s = "  " -> ""
              [] OTHER -> s

Upper(s) == CASE s = "Missing_Rue" -> "MISSING_RUE"
              [] s = "Rue Existing" -> "RUE EXISTING"
              [] s = "Rue Test" -> "RUE TEST"
              [] s = "1 Rue A" -> "1 RUE A"
              [] OTHER -> s

\* the label is compared untrimmed and case-sensitively
HasLabel_Mutant(row) == row.RUE_REVERSE # "" /\ row.RUE_REVERSE # MISSING_RUE

\* line 59: the row already has a label that is not the sentinel
HasLabel(row) ==
    LET rue == Strip(row.RUE_REVERSE)
    IN  rue # "" /\ Upper(rue) # MISSING_RUE

\* lines 62-66: float(v) unless v is None, "" or "None"; None on ValueError of either
CoordsOf(row) ==
    LET lon == row.LON_WGS84
        lat == row.LAT_WGS84
        lon_f == IF lon \in {"", "None"} THEN None ELSE ParseFloat(lon)
        lat_f == IF lat \in {"", "None"} THEN None ELSE ParseFloat(lat)
        raised == \/ lon \notin {"", "None"} /\ IsNone(ParseFloat(lon))
                  \/ lat \notin {"", "None"} /\ IsNone(ParseFloat(lat))
    IN  IF raised THEN [lon_f |-> None, lat_f |-> None]
        ELSE [lon_f |-> lon_f, lat_f |-> lat_f]

\* lines 59-68: the row reaches line 70
NeedsLookup(row) ==
    /\ ~HasLabel(row)
    /\ ~IsNone(CoordsOf(row).lon_f)
    /\ ~IsNone(CoordsOf(row).lat_f)

\* the label is stored even when it is empty
Relabel_Mutant(row, l) == [row EXCEPT !.RUE_REVERSE = l]

\* lines 71-73: if label: row["RUE_REVERSE"] = label
Relabel(row, l) == IF l # "" THEN [row EXCEPT !.RUE_REVERSE = l] ELSE row

\* the backoff does not grow with the attempt
Backoff_Mutant(n) == BACKOFF

\* line 42: time.sleep(0.5 * attempt)
Backoff(n) == BACKOFF * n

\* lines 47-51; open() raises when posts.csv is absent, rows[0] when it has no row
RepairStart ==
    /\ pc = "start"
    /\ script' = "repair"
    /\ IF ~file.exists \/ file.rows = <<>>
       THEN pc' = "failed_open" /\ UNCHANGED <<rows, header, rowpos>>
       ELSE /\ rows' = file.rows
            /\ header' = file.header
            /\ rowpos' = 1
            /\ pc' = "visit"
    /\ UNCHANGED <<file, layer, existing_rows, all_features, offset, projected,
                   reverse_cache, i, idx, attempt, trace, file0, fetchLog, pages,
                   projLog, calls, body, label>>

\* lines 53-68: a row that is passed over (label present, or no valid coordinates)
RepairSkip ==
    /\ pc = "visit"
    /\ rowpos <= Len(rows)
    /\ ~NeedsLookup(rows[rowpos])
    /\ rowpos' = rowpos + 1
    /\ UNCHANGED <<file, layer, pc, script, existing_rows, all_features, offset,
                   projected, reverse_cache, i, idx, rows, header, attempt, trace, file0,
                   fetchLog, pages, projLog, calls, body, label>>

\* lines 26-43 and 70-74: one attempt of reverse_geocode for the row; when the
\* call returns, the row is relabelled and main sleeps SLEEP_SECONDS
RepairAttempt ==
    /\ pc = "visit"
    /\ rowpos <= Len(rows)
    /\ NeedsLookup(rows[rowpos])
    /\ LET row == rows[rowpos]
           c == CoordsOf(row)
           n == attempt + 1
           finish(tr, l, ex) ==
               /\ calls' = Append(calls, Call("repair", rowpos, c.lon_f, c.lat_f, tr, l, ex,
                                               SLEEP_SECONDS))
               /\ rows' = [rows EXCEPT ![rowpos] = Relabel(row, l)]
               /\ rowpos' = rowpos + 1
               /\ attempt' = 0
               /\ trace' = <<>>
       IN  \E resp \in GeoResponses :
             IF ~IsRaised(resp)
             THEN finish(Append(trace, 0), ExtractLabel(resp), FALSE)
             ELSE IF n = MAX_RETRIES
                  THEN finish(Append(trace, 0), "", TRUE)
                  ELSE /\ trace' = trace \o <<0, Backoff(n)>>
                       /\ attempt' = n
                       /\ UNCHANGED <<calls, rows, rowpos>>
    /\ UNCHANGED <<file, layer, pc, script, existing_rows, all_features, offset,
                   projected, reverse_cache, i, idx, header, file0, fetchLog, pages,
                   projLog, body, label>>

\* lines 76-81: every row has been visited, posts.csv is rewritten
RepairWrite ==
    /\ pc = "visit"
    /\ rowpos > Len(rows)
    /\ file' = CsvFile(header, rows)
    /\ pc' = "done"
    /\ UNCHANGED <<layer, script, existing_rows, all_features, offset, projected,
                   reverse_cache, i, idx, rows, header, rowpos, attempt, trace, file0,
                   fetchLog, pages, projLog, calls, body, label>>

RepairNext ==
    \/ RepairStart
    \/ RepairSkip
    \/ RepairAttempt
    \/ RepairWrite

-----------------------------------------------------------------------------
(* Label selection on its own *)

LabelValues == {"", "Rue L", "Rue A", "Rue M"}

AddressObjects == UNION {[S -> LabelValues] : S \in SUBSET LabelKeys}

Bodies == {EmptyDict} \cup {[address |-> a] : a \in AddressObjects}

\* main.py lines 76-82, fill_missing_rues.py lines 30-36
SelectLabel ==
    /\ pc = "start"
    /\ label' = ExtractLabel(body)
    /\ pc' = "done"
    /\ UNCHANGED <<file, layer, script, existing_rows, all_features, offset, projected,
                   reverse_cache, i, idx, rows, header, rowpos, attempt, trace, file0,
                   fetchLog, pages, projLog, calls, body>>

-----------------------------------------------------------------------------
(* Initial posts.csv of the repair specification *)

ALT_HEADER == <<"OBJECTID", "RUE_REVERSE", "LON_WGS84", "LAT_WGS84", "STATION_NO",
                "STATUT", "DATE_MAJ_ISO", "STATIONNEMENT", "X_32187", "Y_32187">>

RowKinds ==
    {<<c[1], c[2], rue>> :
        c \in {<<ValidLon, ValidLat>>, <<"", "">>, <<"abc", ValidLat>>,
               <<ValidLon, "None">>},
        rue \in {"", MISSING_RUE, " Missing_Rue ", "  ", "Rue Existing"}}

\* a file whose k-th row has OBJECTID k
RepairFile(h, kinds) ==
    CsvFile(h, [k \in DOMAIN kinds |->
                    SeedRow(k, kinds[k][1], kinds[k][2], kinds[k][3])])

RepairSeeds ==
    {NoFile} \cup {RepairFile(h, ks) : h \in {HEADER, ALT_HEADER},
                                       ks \in SeqsUpTo(RowKinds, MaxRows)}

-----------------------------------------------------------------------------

(* Specifications *)

Idle ==
    /\ layer = <<>>
    /\ pc = "start"
    /\ script = "none"
    /\ existing_rows = EmptyDict
    /\ all_features = <<>>
    /\ offset = 0
    /\ projected = <<>>
    /\ reverse_cache = EmptyDict
    /\ i = 0
    /\ idx = 0
    /\ rows = <<>>
    /\ header = <<>>
    /\ rowpos = 0
    /\ attempt = 0
    /\ trace = <<>>
    /\ fetchLog = <<>>
    /\ pages = <<>>
    /\ projLog = <<>>
    /\ calls = <<>>
    /\ label = ""

\* one run of either script over a posts.csv a previous run left
Init ==
    /\ file \in Seeds
    /\ file0 = file
    /\ body = EmptyDict
    /\ Idle

Next == SyncNext \/ RepairNext

Spec == Init /\ [][Next]_vars

\* one run of the repair script over any posts.csv
RepairInit ==
    /\ file \in RepairSeeds
    /\ file0 = file
    /\ body = EmptyDict
    /\ Idle

RepairSpec == RepairInit /\ [][RepairNext]_vars

\* label selection over every response body
LabelInit ==
    /\ file = NoFile
    /\ file0 = file
    /\ body \in Bodies
    /\ Idle

LabelNext == SelectLabel

LabelSpec == LabelInit /\ [][LabelNext]_vars

-----------------------------------------------------------------------------
(* Helpers of the properties *)

RECURSIVE Concat(_)
Concat(ss) == IF ss = <<>> THEN <<>> ELSE ss[1] \o Concat(Tail(ss))

Written == script = "sync" /\ pc \in {"rows", "done", "failed_rows"}
Fetched == script = "sync" /\ pc \in {"project", "rows", "done", "failed_project", "failed_rows"}
Ended == pc \in {"done", "failed_fetch", "failed_project", "failed_rows", "failed_open"}

OidText(k) == ToString(all_features[k].attributes.OBJECTID)

-----------------------------------------------------------------------------
(* C5: fetch loop *)

\* C5: every page is requested at the offset equal to the number of features
\* accumulated so far; the loop goes on while every page received is full
\* and has stopped only after a page that is empty or shorter than PAGE_SIZE,
\* all pages before it being full; the accumulated list is the concatenation
\* of the pages received.
C5_FetchLoop ==
    script = "sync" =>
        /\ \A k \in DOMAIN fetchLog :
              /\ k <= Len(pages) + 1
              /\ fetchLog[k] = Len(Concat(SubSeq(pages, 1, k - 1)))
        /\ all_features = Concat(pages)
        /\ \A k \in 1..(Len(pages) - 1) : Len(pages[k]) = PAGE_SIZE
        /\ pc = "fetch" => \A k \in DOMAIN pages : Len(pages[k]) = PAGE_SIZE
        /\ Fetched => /\ pages # <<>>
                      /\ Len(pages[Len(pages)]) < PAGE_SIZE
                      /\ Len(fetchLog) = Len(pages)

\* a full page followed by a short one
C5_Witness ==
    /\ script = "sync"
    /\ pc = "project"
    /\ Len(pages) = 2
    /\ Len(pages[1]) = PAGE_SIZE
    /\ Len(pages[2]) = 1
    /\ fetchLog = <<0, PAGE_SIZE>>

-----------------------------------------------------------------------------
(* C4: projection *)

\* C4: once the batches are projected, the i-th element of the projected
\* list is the projection of the i-th point, so that a row written with
\* coordinates for a feature without a previous row carries the projection of
\* that feature's own geometry; no request is made for an empty point list.
\* (The claim also says that the two lists have the same length; the
\* statement here is the part of it about order alone.)
C4_Original ==
    /\ Written =>
          /\ \A k \in DOMAIN projected :
                k <= Len(all_features)
                    /\ projected[k] = ProjectionOf(all_features[k].geometry)
          /\ \A k \in DOMAIN file.rows :
                (/\ IsNone(ExistingRow(existing_rows, OidText(k)))
                 /\ file.rows[k].LON_WGS84 # "")
                    => /\ file.rows[k].LON_WGS84
                            = FloatText(ProjectionOf(all_features[k].geometry).x)
                       /\ file.rows[k].LAT_WGS84
                            = FloatText(ProjectionOf(all_features[k].geometry).y)
    /\ \A k \in DOMAIN projLog : projLog[k] # <<>>

-----------------------------------------------------------------------------
(* C2: the output file and failed runs *)

\* C2: when a sync run has terminated on an error (page fetch, projection,
\* or while rows are built and emitted), the previous posts.csv is as it was
\* before the run.
C2_Original ==
    (/\ script = "sync"
     /\ pc \in {"failed_fetch", "failed_project", "failed_rows"}
     /\ file0.exists)
        => file = file0

-----------------------------------------------------------------------------
(* C1: resolved rows persist *)

\* the row has a label that is neither empty nor the sentinel, read as
\* generously as the repair script reads it (trimmed, any case)
Labelled(row) ==
    /\ Strip(row.RUE_REVERSE) # ""
    /\ Upper(Strip(row.RUE_REVERSE)) # MISSING_RUE

SameEnrichment(a, b) ==
    /\ a.OBJECTID = b.OBJECTID
    /\ a.LON_WGS84 = b.LON_WGS84
    /\ a.LAT_WGS84 = b.LAT_WGS84
    /\ a.RUE_REVERSE = b.RUE_REVERSE

\* C1: when a run of either script has ended, every row that posts.csv held
\* before the run with a non-empty, non-sentinel label, and whose OBJECTID the
\* feature service returned in this run (sync), is in posts.csv with the same
\* LON_WGS84, LAT_WGS84 and RUE_REVERSE, and no reverse_geocode call was made
\* for it.
C1_Original ==
    (Ended /\ file0.exists) =>
        \A k \in DOMAIN file0.rows :
            (/\ Labelled(file0.rows[k])
             /\ script = "sync" =>
                    \E j \in DOMAIN all_features : OidText(j) = file0.rows[k].OBJECTID)
                => /\ \E j \in DOMAIN file.rows : SameEnrichment(file.rows[j], file0.rows[k])
                   /\ \A c \in DOMAIN calls :
                        IF script = "sync"
                        THEN OidText(calls[c].row) # file0.rows[k].OBJECTID
                        ELSE calls[c].row # k

-----------------------------------------------------------------------------
(* C8: reuse of the previous row *)

\* every point of the feature list has been posted, in order
AllPointsPosted == Concat(projLog) = PointsOf(all_features)

\* C8 as amended: a row written for a feature whose OBJECTID has a row in the
\* previous posts.csv carries that row's LON_WGS84, LAT_WGS84 and RUE_REVERSE
\* verbatim, whatever the stored label, and no reverse_geocode call is made
\* for it; its point is nevertheless posted to the projection endpoint with
\* all the others.
C8_Reuse ==
    Written =>
        /\ AllPointsPosted
        /\ \A k \in DOMAIN file.rows :
              OidText(k) \in DOMAIN load_existing(file0) =>
                  /\ SameEnrichment(file.rows[k], load_existing(file0)[OidText(k)])
                  /\ \A c \in DOMAIN calls : calls[c].row # k

\* C8: as above, and the point of such a feature is not posted to the
\* projection endpoint.
C8_Original ==
    Written =>
        \A k \in DOMAIN file.rows :
            OidText(k) \in DOMAIN load_existing(file0) =>
                /\ SameEnrichment(file.rows[k], load_existing(file0)[OidText(k)])
                /\ \A c \in DOMAIN calls : calls[c].row # k
                /\ k \notin DOMAIN Concat(projLog)

\* a finished run that wrote a reused row whose stored label is the sentinel,
\* next to a row it had to enrich itself
C8_Witness ==
    /\ script = "sync"
    /\ pc = "done"
    /\ \E k \in DOMAIN file.rows :
          /\ OidText(k) \in DOMAIN load_existing(file0)
          /\ file.rows[k].RUE_REVERSE = MISSING_RUE
          /\ file.rows[k].LON_WGS84 = ValidLon
          /\ all_features[k].geometry = G2
    /\ \E c \in DOMAIN calls : calls[c].trace = <<0>>

-----------------------------------------------------------------------------
(* C10: the geocode cache *)

HasPoint(c) == ~IsNone(c.lon) /\ ~IsNone(c.lat)

\* two calls were made for points that agree after rounding to 6 decimals
SameRoundedKey(a, b) ==
    /\ HasPoint(a)
    /\ HasPoint(b)
    /\ Round6(Val(a.lon)) = Round6(Val(b.lon))
    /\ Round6(Val(a.lat)) = Round6(Val(b.lat))

\* a later call for the same rounded key makes no request and returns the
\* label of the earlier one
CachedAfterFirst(scripts) ==
    \A a \in DOMAIN calls : \A b \in DOMAIN calls :
        (/\ a < b
         /\ calls[a].script \in scripts
         /\ SameRoundedKey(calls[a], calls[b]))
            => /\ calls[b].trace = <<>>
               /\ calls[b].label = calls[a].label

\* C10 as amended: within a run of the sync pipeline, at most one lookup is
\* issued per distinct rounded key and every later reverse_geocode call for
\* the same key returns the label of the first (the empty label of a failed
\* lookup included) without a request.
C10_SyncCache == CachedAfterFirst({"sync"})

\* C10: the same within a run of either pipeline.
C10_Original == CachedAfterFirst({"sync", "repair"})

\* two sync calls for distinct points with the same rounded key, the first
\* failed, the second answered from the cache
C10_Witness ==
    /\ script = "sync"
    /\ Len(calls) >= 2
    /\ SameRoundedKey(calls[1], calls[2])
    /\ calls[1].lon # calls[2].lon
    /\ calls[1].raised
    /\ calls[2].trace = <<>>
    /\ calls[2].label = ""

-----------------------------------------------------------------------------
(* C9: retries *)

Requests(tr) == Cardinality({k \in DOMAIN tr : tr[k] = 0})

\* requests at the odd positions, and after the k-th failed request a sleep
\* of 0.5 * k seconds
RetryPattern(tr) ==
    \A k \in DOMAIN tr :
        IF k % 2 = 1 THEN tr[k] = 0 ELSE tr[k] = 50 * (k \div 2)

\* the repair script's reverse_geocode: at most MAX_RETRIES (3) requests, a
\* return right after the first request that succeeds or after the third
\* that fails (the trace ends with a request, never with a sleep), "" after
\* the third failure
RepairRetry ==
    /\ \A c \in DOMAIN calls :
          calls[c].script = "repair" =>
              /\ RetryPattern(calls[c].trace)
              /\ Len(calls[c].trace) % 2 = 1
              /\ Requests(calls[c].trace) <= 3
              /\ calls[c].raised => /\ Requests(calls[c].trace) = 3
                                    /\ calls[c].label = ""
    /\ script = "repair" =>
          /\ RetryPattern(trace)
          /\ Len(trace) = 2 * attempt
          /\ attempt < 3

\* an earlier sync call was made for the same rounded key
SeenBefore(c) == \E a \in 1..(c - 1) : SameRoundedKey(calls[a], calls[c])

\* C9 as amended: the sync script's reverse_geocode makes at most one
\* request per call and never sleeps: exactly one when both coordinates are
\* present and the key is not cached, none otherwise; it returns "" when the
\* request raises.  The repair script's part is as claimed.
C9_Retry ==
    /\ RepairRetry
    /\ \A c \in DOMAIN calls :
          calls[c].script = "sync" =>
              /\ calls[c].trace \in {<<>>, <<0>>}
              /\ calls[c].trace = <<0>> <=> (HasPoint(calls[c]) /\ ~SeenBefore(c))
              /\ calls[c].raised => calls[c].label = ""

\* C9: the repair script's part, and the sync script's reverse_geocode makes
\* exactly one request per call, returning "" when it raises.
C9_Original ==
    /\ RepairRetry
    /\ \A c \in DOMAIN calls :
          calls[c].script = "sync" =>
              /\ calls[c].trace = <<0>>
              /\ calls[c].raised => calls[c].label = ""

\* a repair call that failed three times, with both sleeps
C9_Witness ==
    /\ script = "repair"
    /\ \E c \in DOMAIN calls :
          /\ calls[c].trace = <<0, 50, 0, 100, 0>>
          /\ calls[c].raised
          /\ calls[c].label = ""

-----------------------------------------------------------------------------
(* C3: which rows the repair script looks up *)

\* RUE_REVERSE, trimmed, is empty or is MISSING_RUE in any case, and both
\* coordinates parse as floats
Eligible(row) ==
    /\ \/ Strip(row.RUE_REVERSE) = ""
       \/ Upper(Strip(row.RUE_REVERSE)) = "MISSING_RUE"
    /\ ~IsNone(ParseFloat(row.LON_WGS84))
    /\ ~IsNone(ParseFloat(row.LAT_WGS84))

CallsFor(k) == {c \in DOMAIN calls : calls[c].row = k}

\* C3: the repair script calls the geocoder for a row only if the row is
\* eligible, and, once posts.csv is rewritten, has called it for every
\* eligible row; every other row is written back with all fields identical;
\* the file has the same number of rows, in the same order, under the same
\* header.
C3_RepairFrame ==
    script = "repair" =>
        /\ \A c \in DOMAIN calls :
              /\ calls[c].row \in DOMAIN file0.rows
              /\ Eligible(file0.rows[calls[c].row])
              /\ Requests(calls[c].trace) >= 1
        /\ pc = "done" =>
              /\ file.header = file0.header
              /\ Len(file.rows) = Len(file0.rows)
              /\ \A k \in DOMAIN file0.rows :
                    /\ file.rows[k].OBJECTID = file0.rows[k].OBJECTID
                    /\ Eligible(file0.rows[k]) => CallsFor(k) # {}
                    /\ ~Eligible(file0.rows[k]) => file.rows[k] = file0.rows[k]

\* a rewritten file under the other header: a sentinel row relabelled and a
\* label-less row without numeric coordinates left as it was
C3_Witness ==
    /\ script = "repair"
    /\ pc = "done"
    /\ file.header = ALT_HEADER
    /\ Len(file.rows) = 2
    /\ file0.rows[1].RUE_REVERSE = " Missing_Rue "
    /\ file.rows[1].RUE_REVERSE = "1 Rue A"
    /\ file0.rows[2].RUE_REVERSE = ""
    /\ file0.rows[2].LON_WGS84 = "abc"
    /\ file.rows[2] = file0.rows[2]
    /\ Len(calls) = 1

-----------------------------------------------------------------------------
(* C7: how a looked-up row ends *)

\* C7 as amended: once posts.csv is rewritten, a row that needed lookup has
\* had exactly one reverse_geocode call and is in one of two states:
\* RESOLVED, RUE_REVERSE being the non-empty label the call returned, or
\* UNRESOLVED, the call having returned "" (all retries failed, or the
\* response carried no label) and RUE_REVERSE being left as it was (empty,
\* blank, or the sentinel); the other fields are unchanged.
C7_Outcome ==
    (script = "repair" /\ pc = "done") =>
        \A k \in DOMAIN file0.rows :
            Eligible(file0.rows[k]) =>
                /\ Cardinality(CallsFor(k)) = 1
                /\ \A c \in CallsFor(k) :
                      IF calls[c].label # ""
                      THEN file.rows[k] = [file0.rows[k] EXCEPT !.RUE_REVERSE = calls[c].label]
                      ELSE file.rows[k] = file0.rows[k]

\* C7: once posts.csv is rewritten, a row that needed lookup is RESOLVED,
\* with the label found, or UNRESOLVED, all retries having failed, with
\* RUE_REVERSE the empty string.  (Any call that returned "" is counted as
\* "all retries failed".)
C7_Original ==
    (script = "repair" /\ pc = "done") =>
        \A k \in DOMAIN file0.rows :
            Eligible(file0.rows[k]) =>
                \A c \in CallsFor(k) :
                    \/ calls[c].label # "" /\ file.rows[k].RUE_REVERSE = calls[c].label
                    \/ calls[c].label = "" /\ file.rows[k].RUE_REVERSE = ""

\* a sentinel row whose three attempts failed and that still holds the sentinel
C7_Witness ==
    /\ script = "repair"
    /\ pc = "done"
    /\ \E k \in DOMAIN file0.rows :
          /\ Eligible(file0.rows[k])
          /\ file0.rows[k].RUE_REVERSE = MISSING_RUE
          /\ file.rows[k].RUE_REVERSE = MISSING_RUE
          /\ \E c \in CallsFor(k) : calls[c].raised /\ Requests(calls[c].trace) = 3

-----------------------------------------------------------------------------
(* C6: label selection *)

AddressOf(b) == IF "address" \in DOMAIN b THEN b.address ELSE EmptyDict

Present(a, key) == key \in DOMAIN a /\ a[key] # ""

\* C6 as amended: the label is the value of LongLabel if that key is present
\* and not empty, else the value of Address if present and not empty, else
\* the value of Match_addr if present and not empty, else "".
C6_Label ==
    pc = "done" =>
        LET a == AddressOf(body)
        IN  label = IF Present(a, "LongLabel") THEN a["LongLabel"]
                    ELSE IF Present(a, "Address") THEN a["Address"]
                    ELSE IF Present(a, "Match_addr") THEN a["Match_addr"]
                    ELSE ""

\* C6: the label is the value of LongLabel if that key is present, else the
\* value of Address if present, else the value of Match_addr if present,
\* else "".
C6_Original ==
    pc = "done" =>
        LET a == AddressOf(body)
        IN  label = IF "LongLabel" \in DOMAIN a THEN a["LongLabel"]
                    ELSE IF "Address" \in DOMAIN a THEN a["Address"]
                    ELSE IF "Match_addr" \in DOMAIN a THEN a["Match_addr"]
                    ELSE ""

\* only Address and Match_addr are present and Address is chosen
C6_Witness ==
    /\ pc = "done"
    /\ DOMAIN AddressOf(body) = {"Address", "Match_addr"}
    /\ AddressOf(body)["Address"] = "Rue A"
    /\ AddressOf(body)["Match_addr"] = "Rue M"
    /\ label = "Rue A"

====
